---------------------------- MODULE Spec2Model ----------------------------
(***************************************************************************)
(* Model of src/tick_math.rs of uniswap-v3-math: the two conversions       *)
(* get_sqrt_ratio_at_tick and get_tick_at_sqrt_ratio, in the 256-bit       *)
(* integer arithmetic the code uses.                                       *)
(*                                                                         *)
(* TLC integers are 32 bits wide, so a U256 is a little-endian sequence of *)
(* limbs in base 2^15 without a leading zero limb (zero is << >>).  All    *)
(* arithmetic is exact on such sequences; Wrap256 cuts a value to its low  *)
(* 256 bits where the code's operator wraps.                               *)
(***************************************************************************)
EXTENDS Integers, Sequences, FiniteSets, TLC

(***************************************************************************)
(* The locals of a call in progress and the values it returned:            *)
(*   pc          where the caller is: "idle", "sqrt_done" after            *)
(*               get_sqrt_ratio_at_tick, "loop" and "final" inside         *)
(*               get_tick_at_sqrt_ratio, "tick_done" after it              *)
(*   tick        the argument of get_sqrt_ratio_at_tick                    *)
(*   sqrt_res    its result                                                *)
(*   price       sqrt_price_x_96, the argument of get_tick_at_sqrt_ratio   *)
(*   r, log_2, i, tick_low, tick_high   its locals                         *)
(*   positions   the bit positions of log_2 decided so far                 *)
(*   arith       the operands of the arithmetic done so far                *)
(*   tick_res    its result                                                *)
(***************************************************************************)
VARIABLES pc, tick, sqrt_res, price, r, log_2, i, positions, arith,
          tick_low, tick_high, tick_res

vars == <<pc, tick, sqrt_res, price, r, log_2, i, positions, arith,
          tick_low, tick_high, tick_res>>

(***************************************************************************)
(* Natural numbers of any width.                                           *)
(***************************************************************************)
LimbBits == 15
B == 2^LimbBits

Limb(a, k) == IF k <= Len(a) THEN a[k] ELSE 0

\* TLC evaluates an argument only where it is first used, and then once;
\* comparing a value with itself evaluates it on the spot, which keeps long
\* chains of operations from nesting.  A value used more than once is
\* therefore handed on as an argument.
Evaluated(v) == v = v

RECURSIVE Trim(_)
Trim(a) == IF a = << >> THEN a
           ELSE IF a[Len(a)] = 0 THEN Trim(SubSeq(a, 1, Len(a) - 1))
           ELSE a

RECURSIVE FromInt(_)
FromInt(n) == IF n = 0 THEN << >> ELSE <<n % B>> \o FromInt(n \div B)

RECURSIVE AddC(_, _, _, _)
AddC(a, b, k, c) ==
    IF k > Len(a) /\ k > Len(b)
    THEN IF c = 0 THEN << >> ELSE <<c>>
    ELSE LET s == Limb(a, k) + Limb(b, k) + c
         IN  <<s % B>> \o AddC(a, b, k + 1, s \div B)

AddN(a, b) == AddC(a, b, 1, 0)

RECURSIVE SubC(_, _, _, _)
SubC(a, b, k, c) ==
    IF k > Len(a) THEN << >>
    ELSE LET s == a[k] - Limb(b, k) - c
         IN  IF s < 0 THEN <<s + B>> \o SubC(a, b, k + 1, 1)
                      ELSE <<s>> \o SubC(a, b, k + 1, 0)

\* a - b for a >= b
SubN(a, b) == Trim(SubC(a, b, 1, 0))

RECURSIVE CmpFrom(_, _, _)
CmpFrom(a, b, k) ==
    IF k = 0 THEN 0
    ELSE IF a[k] < b[k] THEN -1
    ELSE IF a[k] > b[k] THEN 1
    ELSE CmpFrom(a, b, k - 1)

CmpN(a, b) == IF Len(a) < Len(b) THEN -1
              ELSE IF Len(a) > Len(b) THEN 1
              ELSE CmpFrom(a, b, Len(a))

LtN(a, b) == CmpN(a, b) < 0
LeN(a, b) == CmpN(a, b) <= 0
GtN(a, b) == CmpN(a, b) > 0
GeN(a, b) == CmpN(a, b) >= 0
IsZero(a) == a = << >>

RECURSIVE MulSmallC(_, _, _, _)
MulSmallC(a, d, k, c) ==
    IF k > Len(a)
    THEN IF c = 0 THEN << >> ELSE <<c>>
    ELSE LET s == a[k] * d + c
         IN  <<s % B>> \o MulSmallC(a, d, k + 1, s \div B)

\* a * d for one limb d
MulSmall(a, d) == IF d = 0 THEN << >> ELSE MulSmallC(a, d, 1, 0)

ShlLimbs(a, q) == IF a = << >> THEN a ELSE [k \in 1..q |-> 0] \o a

RECURSIVE MulFrom(_, _, _)
MulFrom(a, b, j) ==
    IF j > Len(b) THEN << >>
    ELSE AddN(MulSmall(a, b[j]), ShlLimbs(MulFrom(a, b, j + 1), 1))

\* The exact product, as wide as it needs to be.
MulN(a, b) == IF Len(a) < Len(b) THEN MulFrom(b, a, 1) ELSE MulFrom(a, b, 1)

ShlN(a, n) == ShlLimbs(MulSmall(a, 2^(n % LimbBits)), n \div LimbBits)

ShrN(a, n) ==
    LET q == n \div LimbBits
        s == n % LimbBits
        m == Len(a) - q
    IN  IF m <= 0 THEN << >>
        ELSE Trim([k \in 1..m |->
                     (a[k + q] \div 2^s) + (Limb(a, k + q + 1) % 2^s) * 2^(LimbBits - s)])

\* a mod 2^n
ModPow2(a, n) ==
    LET q == n \div LimbBits
        s == n % LimbBits
    IN  IF Len(a) <= q THEN a
        ELSE Trim([k \in 1..(q + 1) |-> IF k <= q THEN a[k] ELSE a[k] % 2^s])

RECURSIVE OrLimb(_, _, _)
OrLimb(x, y, k) ==
    IF k = 0 THEN 0
    ELSE (IF x % 2 = 1 \/ y % 2 = 1 THEN 1 ELSE 0)
         + 2 * OrLimb(x \div 2, y \div 2, k - 1)

BitOrN(a, b) ==
    LET m == IF Len(a) > Len(b) THEN Len(a) ELSE Len(b)
    IN  [k \in 1..m |-> OrLimb(Limb(a, k), Limb(b, k), LimbBits)]

\* The greatest limb d with b * d <= rem, found bit by bit from the top.
RECURSIVE QuotDigit(_, _, _, _)
QuotDigit(rem, b, d, k) ==
    IF k < 0 THEN d
    ELSE IF LeN(MulSmall(b, d + 2^k), rem)
         THEN QuotDigit(rem, b, d + 2^k, k - 1)
         ELSE QuotDigit(rem, b, d, k - 1)

\* Long division, limb k of a brought down to the remainder rem: cur is the
\* running dividend, d the quotient limb, nxt the remainder left.
RECURSIVE DivFrom(_, _, _, _)
DivRest(a, b, k, d, nxt) ==
    IF Evaluated(nxt) THEN DivFrom(a, b, k - 1, nxt) \o <<d>> ELSE << >>

DivLimb(a, b, k, cur, d) == DivRest(a, b, k, d, SubN(cur, MulSmall(b, d)))

DivCur(a, b, k, cur) == DivLimb(a, b, k, cur, QuotDigit(cur, b, 0, LimbBits - 1))

DivFrom(a, b, k, rem) ==
    IF k = 0 THEN << >> ELSE DivCur(a, b, k, Trim(<<a[k]>> \o rem))

\* floor(a / b) for b # 0
DivN(a, b) == Trim(DivFrom(a, b, Len(a), << >>))


(***************************************************************************)
(* The alloy types U256 and I256 (an I256 is its raw two's complement      *)
(* U256), and the conversions the code applies to literals.                *)
(***************************************************************************)
TWO256 == ShlN(<<1>>, 256)
TWO255 == ShlN(<<1>>, 255)
U256_MAX == SubN(TWO256, <<1>>)

Wrap256(a) == ModPow2(a, 256)

\* U256 `*` and overflowing_mul(..).0 : the low 256 bits of the product
wrapping_mul(a, b) == Wrap256(MulN(a, b))
\* U256 shl / shr by a bit count
shl(a, n) == Wrap256(ShlN(a, n))
shr(a, n) == ShrN(a, n)

Digits == "0123456789abcdef"
DigitVal(c) == CHOOSE v \in 0..15 : SubSeq(Digits, v + 1, v + 1) = c

RECURSIVE ParseRadix(_, _, _)
ParseRest(s, radix, nxt) ==
    IF Evaluated(nxt) THEN ParseRadix(Tail(s), radix, nxt) ELSE << >>

ParseRadix(s, radix, acc) ==
    IF s = "" THEN acc
    ELSE ParseRest(s, radix,
                   AddN(MulSmall(acc, radix), FromInt(DigitVal(SubSeq(s, 1, 1)))))

\* U256::from_str: hexadecimal after "0x", decimal otherwise
from_str(s) ==
    IF Len(s) >= 2 /\ SubSeq(s, 1, 2) = "0x"
    THEN ParseRadix(SubSeq(s, 3, Len(s)), 16, << >>)
    ELSE ParseRadix(s, 10, << >>)

\* U256::from_limbs: four 64-bit limbs, least significant first
from_limbs(l) ==
    AddN(AddN(from_str(l[1]), ShlN(from_str(l[2]), 64)),
         AddN(ShlN(from_str(l[3]), 128), ShlN(from_str(l[4]), 192)))

\* The value of an I256 given by its raw bits, as sign and magnitude.
IsNeg(x) == GeN(x, TWO255)
Magnitude(x) == IF IsNeg(x) THEN SubN(TWO256, x) ELSE x

\* I256 from a small TLC integer
I256_from(n) == IF n < 0 THEN SubN(TWO256, FromInt(-n)) ELSE FromInt(n)

\* I256 `+`, `-`, wrapping_mul and shl on the raw bits
I256_add(x, y) == Wrap256(AddN(x, y))
I256_sub(x, y) == Wrap256(AddN(x, SubN(TWO256, y)))
I256_wrapping_mul(x, y) == Wrap256(MulN(x, y))

\* low_i32: the low 32 bits read as an i32
low_i32(x) ==
    LET lo30 == Limb(x, 1) + Limb(x, 2) * B
        hi2  == Limb(x, 3) % 4
    IN  IF hi2 >= 2 THEN ((lo30 - 2^30) - 2^30) + (hi2 - 2) * 2^30
        ELSE lo30 + hi2 * 2^30

(***************************************************************************)
(* Constants of tick_math.rs                                               *)
(***************************************************************************)
I32_MAX == 2147483647
I32_MIN == -I32_MAX - 1

MIN_TICK == -887272
MAX_TICK == -MIN_TICK
U256_MAX_TICK == 887272

MIN_SQRT_RATIO == from_limbs(<<"4295128739", "0", "0", "0">>)
MAX_SQRT_RATIO ==
    from_limbs(<<"6743328256752651558", "17280870778742802505", "4294805859", "0">>)

SQRT_10001 == from_limbs(<<"11745905768312294533", "13863", "0", "0">>)
TICK_LOW == from_limbs(<<"6552757943157144234", "184476617836266586", "0", "0">>)
TICK_HIGH == from_limbs(<<"4998474450511881007", "15793544031827761793", "0", "0">>)

(***************************************************************************)
(* Results.  arith lists, in order, the operands of every arithmetic       *)
(* operation the call executed, so that the width of each can be examined. *)
(***************************************************************************)
Ok(v, a)  == [kind |-> "Ok", err |-> "", val |-> v, arith |-> a]
Err(e, a) == [kind |-> "Err", err |-> e, val |-> << >>, arith |-> a]
Panic(m)  == [kind |-> "Panic", err |-> m, val |-> << >>, arith |-> << >>]

Op(o, x, y) == [op |-> o, lhs |-> x, rhs |-> y]

(***************************************************************************)
(* get_sqrt_ratio_at_tick                                                  *)
(***************************************************************************)
\* i32 neg: with overflow checks (oc) negating i32::MIN panics, without
\* them it wraps to i32::MIN.
neg(t, oc) ==
    IF t = I32_MIN
    THEN IF oc THEN [panic |-> TRUE, val |-> 0] ELSE [panic |-> FALSE, val |-> I32_MIN]
    ELSE [panic |-> FALSE, val |-> -t]

\* U256::from(i32): panics on a negative value
U256_from(x) ==
    IF x.panic \/ x.val < 0 THEN [panic |-> TRUE, val |-> 0] ELSE [panic |-> FALSE, val |-> x.val]

\* abs_tick & mask # 0 for a mask that is a power of two
BitSet(abs_tick, mask) == (abs_tick \div mask) % 2 = 1

\* Ratio0 with its two branches exchanged (C7 must tell the difference).
Ratio0Swapped(abs_tick) ==
    IF BitSet(abs_tick, 1)
    THEN from_str("0x100000000000000000000000000000000")
    ELSE from_str("0xfffcb933bd6fad37aa2d162d1a594001")

\* ratio at entry of the chain of multiplications
Ratio0(abs_tick) ==
    IF BitSet(abs_tick, 1)
    THEN from_str("0xfffcb933bd6fad37aa2d162d1a594001")
    ELSE from_str("0x100000000000000000000000000000000")

\* The conditional multiplications in the order of the code: mask, factor.
RatioFactors == <<
    <<2,      from_str("0xfff97272373d413259a46990580e213a")>>,
    <<4,      from_str("0xfff2e50f5f656932ef12357cf3c7fdcc")>>,
    <<8,      from_str("0xffe5caca7e10e4e61c3624eaa0941cd0")>>,
    <<16,     from_str("0xffcb9843d60f6159c9db58835c926644")>>,
    <<32,     from_str("0xff973b41fa98c081472e6896dfb254c0")>>,
    <<64,     from_str("0xff2ea16466c96a3843ec78b326b52861")>>,
    <<128,    from_str("0xfe5dee046a99a2a811c461f1969c3053")>>,
    <<256,    from_str("0xfcbe86c7900a88aedcffc83b479aa3a4")>>,
    <<512,    from_str("0xf987a7253ac413176f2b074cf7815e54")>>,
    <<1024,   from_str("0xf3392b0822b70005940c7a398e4b70f3")>>,
    <<2048,   from_str("0xe7159475a2c29b7443b29c7fa6e889d9")>>,
    <<4096,   from_str("0xd097f3bdfd2022b8845ad8f792aa5825")>>,
    <<8192,   from_str("0xa9f746462d870fdf8a65dc1f90e061e5")>>,
    <<16384,  from_str("0x70d869a156d2a1b890bb3df62baf32f7")>>,
    <<32768,  from_str("0x31be135f97d08fd981231505542fcfa6")>>,
    <<65536,  from_str("0x9aa508b5b7a84e1c677de54f3e99bc9")>>,
    <<131072, from_str("0x5d6af8dedb81196699c329225ee604")>>,
    <<262144, from_str("0x2216e584f5fa1ea926041bedfe98")>>,
    <<524288, from_str("0x48a170391f7dc42444e8fa2")>> >>

\* if !(abs_tick & mask).is_zero() { ratio = (ratio * factor) >> 128 }
\* for the factors from index j on; st carries ratio and the operations done.
RatioStep(st, factor) ==
    [ratio |-> shr(wrapping_mul(st.ratio, factor), 128),
     arith |-> Append(st.arith, Op("mul", st.ratio, factor))]

RECURSIVE RatioChain(_, _, _)
RatioRest(abs_tick, j, nxt) ==
    IF Evaluated(nxt) THEN RatioChain(abs_tick, j + 1, nxt) ELSE nxt

RatioChain(abs_tick, j, st) ==
    IF j > Len(RatioFactors) THEN st
    ELSE IF BitSet(abs_tick, RatioFactors[j][1])
    THEN RatioRest(abs_tick, j, RatioStep(st, RatioFactors[j][2]))
    ELSE RatioChain(abs_tick, j + 1, st)

\* Reciprocal taken for the negative ticks instead of the positive ones
\* (C3 must tell the difference).
ReciprocalOfNegative(t, st) ==
    IF t < 0
    THEN IF IsZero(st.ratio)
         THEN [panic |-> TRUE, ratio |-> << >>, arith |-> st.arith]
         ELSE [panic |-> FALSE, ratio |-> DivN(U256_MAX, st.ratio),
               arith |-> Append(st.arith, Op("div", U256_MAX, st.ratio))]
    ELSE [panic |-> FALSE, ratio |-> st.ratio, arith |-> st.arith]

\* if tick > 0 { ratio = U256::MAX / ratio }; division by zero panics
Reciprocal(t, st) ==
    IF t > 0
    THEN IF IsZero(st.ratio)
         THEN [panic |-> TRUE, ratio |-> << >>, arith |-> st.arith]
         ELSE [panic |-> FALSE, ratio |-> DivN(U256_MAX, st.ratio),
               arith |-> Append(st.arith, Op("div", U256_MAX, st.ratio))]
    ELSE [panic |-> FALSE, ratio |-> st.ratio, arith |-> st.arith]

\* Rounding down instead of up (C4 must tell the difference).
RoundDown(ratio) == << >>

\* (ratio >> 32) + if ratio % (1 << 32) is zero { 0 } else { 1 }
RoundUp(ratio) == IF IsZero(ModPow2(ratio, 32)) THEN << >> ELSE <<1>>

\* Ok((ratio >> 32) + round-up) of the ratio the reciprocal step left
Rounded(rec) ==
    IF rec.panic THEN Panic("division by zero")
    ELSE Ok(Wrap256(AddN(shr(rec.ratio, 32), RoundUp(rec.ratio))),
            Append(rec.arith, Op("add", shr(rec.ratio, 32), RoundUp(rec.ratio))))

\* abs_tick = if tick < 0 { U256::from(tick.neg()) } else { U256::from(tick) }
AbsTick(t, oc) ==
    IF t < 0 THEN U256_from(neg(t, oc)) ELSE U256_from([panic |-> FALSE, val |-> t])

SqrtRatioOf(t, abs_tick) ==
    IF abs_tick.panic THEN Panic("abs_tick")
    ELSE IF abs_tick.val > U256_MAX_TICK THEN Err("T", << >>)
    ELSE Rounded(Reciprocal(t, RatioChain(abs_tick.val, 1,
                     [ratio |-> Ratio0(abs_tick.val), arith |-> << >>])))

get_sqrt_ratio_at_tick(t, oc) == SqrtRatioOf(t, AbsTick(t, oc))

(***************************************************************************)
(* get_tick_at_sqrt_ratio, in the pieces its steps are made of             *)
(***************************************************************************)
\* A U256 used as a shift count or small number
ToInt(a) == IF Len(a) = 0 THEN 0 ELSE IF Len(a) = 1 THEN a[1] ELSE B

\* The comparisons that find the most significant bit: threshold, f.
MsbSteps == <<
    <<from_limbs(<<"18446744073709551615", "18446744073709551615", "0", "0">>), 2^7>>,
    <<from_limbs(<<"18446744073709551615", "0", "0", "0">>), 2^6>>,
    <<from_limbs(<<"4294967295", "0", "0", "0">>), 2^5>>,
    <<from_limbs(<<"65535", "0", "0", "0">>), 2^4>>,
    <<FromInt(255), 2^3>>,
    <<FromInt(15), 2^2>>,
    <<FromInt(3), 2^1>> >>

\* f = if r > threshold { 1 << k } else { 0 }; msb = msb | f; r = r >> f
MsbStep(st, f) == [msb |-> OrLimb(st.msb, f, LimbBits), r |-> shr(st.r, f)]

RECURSIVE MsbChain(_, _)
MsbRest(j, nxt) == IF Evaluated(nxt) THEN MsbChain(j + 1, nxt) ELSE nxt

MsbChain(j, st) ==
    IF j > Len(MsbSteps) THEN st
    ELSE MsbRest(j, MsbStep(st, IF GtN(st.r, MsbSteps[j][1])
                                THEN MsbSteps[j][2] ELSE 0))

\* the last comparison sets bit 0 and leaves r alone
MsbLast(st) == OrLimb(st.msb, IF GtN(st.r, <<1>>) THEN 1 ELSE 0, LimbBits)

\* msb of ratio
Msb(ratio) == MsbLast(MsbChain(1, [msb |-> 0, r |-> ratio]))

\* Normalising to bit 128 instead of bit 127 (C10 must tell the difference).
NormalizeHigh(ratio, msb) ==
    IF msb >= 128 THEN shr(ratio, msb - 128) ELSE shl(ratio, 128 - msb)

\* r = if msb >= 128 { ratio >> (msb - 127) } else { ratio << (127 - msb) }
Normalize(ratio, msb) ==
    IF msb >= 128 THEN shr(ratio, msb - 127) ELSE shl(ratio, 127 - msb)

NormalizeOp(ratio, msb) ==
    IF msb >= 128 THEN Op("shr", ratio, FromInt(msb - 127))
    ELSE Op("shl", ratio, FromInt(127 - msb))

\* log_2 = (I256::from_raw(msb) - I256::from(128)).shl(64)
Log2Init(msb) == shl(I256_sub(FromInt(msb), FromInt(128)), 64)

\* r = r.overflowing_mul(r).0 >> 127; f = r >> 128
Squared(r2) == [r |-> r2, f |-> shr(r2, 128)]
Square(r0) == Squared(shr(wrapping_mul(r0, r0), 127))

\* log_2 = log_2 | (f << i)
SetBit(log_2_0, f, pos) == BitOrN(log_2_0, shl(f, pos))

\* (x >> 128).low_i32() on an I256: the 32 bits kept are bits 128..159 of x
\* whether the shift fills with zeros or with the sign.
Shr128Low32(x) == low_i32(shr(x, 128))

CandidateLow(log_sqrt10001) == Shr128Low32(I256_sub(log_sqrt10001, TICK_LOW))

\* The high candidate without its error term (C9 must tell the difference).
CandidateHighBare(log_sqrt10001) == Shr128Low32(log_sqrt10001)

CandidateHigh(log_sqrt10001) == Shr128Low32(I256_add(log_sqrt10001, TICK_HIGH))

TickOk(t)    == [kind |-> "Ok", err |-> "", val |-> t]
TickErr(e)   == [kind |-> "Err", err |-> e, val |-> 0]
TickPanic(m) == [kind |-> "Panic", err |-> m, val |-> 0]
NoResult     == [kind |-> "None", err |-> "", val |-> 0]
NoSqrt       == [kind |-> "None", err |-> "", val |-> << >>, arith |-> << >>]

\* The choice between the two candidates, with the nested call; nested is
\* the arithmetic the nested call did.
\* The choice made with < in place of <= (C6 must tell the difference).
HighOrLowStrict(lo, hi, sqrt_price_x_96, at_high) ==
    IF at_high.kind = "Panic"
    THEN [res |-> TickPanic(at_high.err), nested |-> << >>]
    ELSE IF at_high.kind = "Err"
    THEN [res |-> TickErr(at_high.err), nested |-> << >>]
    ELSE IF LtN(at_high.val, sqrt_price_x_96)
    THEN [res |-> TickOk(hi), nested |-> at_high.arith]
    ELSE [res |-> TickOk(lo), nested |-> at_high.arith]

\* if get_sqrt_ratio_at_tick(tick_high)? <= sqrt_price_x_96 { tick_high }
\* else { tick_low }, for the result at_high of the nested call
HighOrLow(lo, hi, sqrt_price_x_96, at_high) ==
    IF at_high.kind = "Panic"
    THEN [res |-> TickPanic(at_high.err), nested |-> << >>]
    ELSE IF at_high.kind = "Err"
    THEN [res |-> TickErr(at_high.err), nested |-> << >>]
    ELSE IF LeN(at_high.val, sqrt_price_x_96)
    THEN [res |-> TickOk(hi), nested |-> at_high.arith]
    ELSE [res |-> TickOk(lo), nested |-> at_high.arith]

\* The nested call made one tick above tick_high (C5 must tell the
\* difference).
DisambiguateAbove(lo, hi, sqrt_price_x_96, oc) ==
    IF lo = hi THEN [res |-> TickOk(lo), nested |-> << >>]
    ELSE HighOrLow(lo, hi, sqrt_price_x_96, get_sqrt_ratio_at_tick(hi + 1, oc))

Disambiguate(lo, hi, sqrt_price_x_96, oc) ==
    IF lo = hi THEN [res |-> TickOk(lo), nested |-> << >>]
    ELSE HighOrLow(lo, hi, sqrt_price_x_96, get_sqrt_ratio_at_tick(hi, oc))

\* The entry check with the upper bound included (C2 must tell the
\* difference).
InPriceRangeClosed(sqrt_price_x_96) ==
    GeN(sqrt_price_x_96, MIN_SQRT_RATIO) /\ LeN(sqrt_price_x_96, MAX_SQRT_RATIO)

\* the entry check of get_tick_at_sqrt_ratio
InPriceRange(sqrt_price_x_96) ==
    GeN(sqrt_price_x_96, MIN_SQRT_RATIO) /\ LtN(sqrt_price_x_96, MAX_SQRT_RATIO)

\* The loop carried on to bit 50 (C8 must tell the difference).
LoopLastBelow == 51 - 1

\* for i in (51..=63).rev()
LoopFirst == 63
LoopLast == 51
FinalBit == 50

\* From the entry to the loop: ratio, msb, the normalised r and the integer
\* part of log_2
EntryMsb(sqrt_price_x_96, ratio, msb) ==
    [r     |-> Normalize(ratio, msb),
     log_2 |-> Log2Init(msb),
     arith |-> <<Op("shl", sqrt_price_x_96, FromInt(32)),
                 NormalizeOp(ratio, msb),
                 Op("ssub", FromInt(msb), FromInt(128)),
                 Op("sshl", I256_sub(FromInt(msb), FromInt(128)), FromInt(64))>>]

EntryRatio(sqrt_price_x_96, ratio) == EntryMsb(sqrt_price_x_96, ratio, Msb(ratio))

Entry(sqrt_price_x_96) == EntryRatio(sqrt_price_x_96, shl(sqrt_price_x_96, 32))

\* The body of the loop for bit position pos; sq is the squaring done
IterationOf(r0, log_2_0, pos, sq) ==
    [r     |-> shr(sq.r, ToInt(sq.f)),
     log_2 |-> SetBit(log_2_0, sq.f, pos),
     arith |-> <<Op("overflowing_mul", r0, r0)>>]

Iteration(r0, log_2_0, pos) == IterationOf(r0, log_2_0, pos, Square(r0))

\* After the loop: the last squaring sq, log_2 with its last bit (l2),
\* log_sqrt10001, the two candidates lo and hi and the choice dis between
\* them
FinalState(r0, sq, l2, log_sqrt10001, lo, hi, dis) ==
    [r         |-> sq.r,
     log_2     |-> l2,
     tick_low  |-> lo,
     tick_high |-> hi,
     res       |-> dis.res,
     arith     |-> <<Op("overflowing_mul", r0, r0),
                     Op("smul", l2, SQRT_10001),
                     Op("ssub", log_sqrt10001, TICK_LOW),
                     Op("sadd", log_sqrt10001, TICK_HIGH)>> \o dis.nested]

FinalChoice(r0, sq, l2, log_sqrt10001, lo, hi, sqrt_price_x_96, oc) ==
    FinalState(r0, sq, l2, log_sqrt10001, lo, hi,
               Disambiguate(lo, hi, sqrt_price_x_96, oc))

FinalCandidates(r0, sq, l2, log_sqrt10001, sqrt_price_x_96, oc) ==
    FinalChoice(r0, sq, l2, log_sqrt10001, CandidateLow(log_sqrt10001),
                CandidateHigh(log_sqrt10001), sqrt_price_x_96, oc)

FinalLog(r0, sq, l2, sqrt_price_x_96, oc) ==
    FinalCandidates(r0, sq, l2, I256_wrapping_mul(l2, SQRT_10001),
                    sqrt_price_x_96, oc)

FinalSquare(r0, sq, log_2_0, sqrt_price_x_96, oc) ==
    FinalLog(r0, sq, SetBit(log_2_0, sq.f, FinalBit), sqrt_price_x_96, oc)

Final(r0, log_2_0, sqrt_price_x_96, oc) ==
    FinalSquare(r0, Square(r0), log_2_0, sqrt_price_x_96, oc)

(***************************************************************************)
(* The caller and the steps of a call.  Every value is local to a call and *)
(* gone when it has returned.                                              *)
(***************************************************************************)
TickWindow == 2
PriceDelta == 1

Ticks == (MIN_TICK - 1 .. MIN_TICK + TickWindow)
         \cup (-TickWindow .. TickWindow)
         \cup (MAX_TICK - TickWindow .. MAX_TICK + 1)
         \cup {50, 500000, 738203, I32_MIN, I32_MIN + 1, I32_MAX}
         \cup {2^k : k \in 1..Len(RatioFactors)}
         \cup {-(2^k) : k \in 1..Len(RatioFactors)}

\* Prices that belong to no tick's neighbourhood.
OtherPrices == {<< >>, <<1>>, U256_MAX, shl(<<1>>, 160), shl(<<1>>, 96)}

\* Prices at and around the price p of a tick.
PricesAt(p) ==
    {AddN(p, FromInt(d)) : d \in 0..PriceDelta}
    \cup {SubN(p, FromInt(d)) : d \in 1..PriceDelta}
    \cup {AddN(p, shr(p, 16))}

Init == /\ pc = "idle"
        /\ tick = 0
        /\ sqrt_res = NoSqrt
        /\ price = << >>
        /\ r = << >>
        /\ log_2 = << >>
        /\ i = 0
        /\ positions = << >>
        /\ arith = << >>
        /\ tick_low = 0
        /\ tick_high = 0
        /\ tick_res = NoResult

\* get_sqrt_ratio_at_tick(t) called and returned
CallSqrt ==
    /\ pc = "idle"
    /\ \E t \in Ticks, oc \in BOOLEAN :
          /\ tick' = t
          /\ sqrt_res' = get_sqrt_ratio_at_tick(t, oc)
    /\ pc' = "sqrt_done"
    /\ UNCHANGED <<price, r, log_2, i, positions, arith, tick_low, tick_high, tick_res>>

\* get_tick_at_sqrt_ratio(p) entered: the range check, then everything up
\* to the loop
Enter(p) ==
    /\ price' = p
    /\ IF ~InPriceRange(p)
       THEN /\ pc' = "tick_done"
            /\ tick_res' = TickErr("R")
            /\ UNCHANGED <<r, log_2, i, positions, arith>>
       ELSE \E e \in {Entry(p)} :
                /\ pc' = "loop"
                /\ r' = e.r
                /\ log_2' = e.log_2
                /\ i' = LoopFirst
                /\ positions' = << >>
                /\ arith' = e.arith
                /\ tick_res' = NoResult
    /\ UNCHANGED <<tick_low, tick_high>>

\* the caller passes on the price it got from get_sqrt_ratio_at_tick, or one
\* next to it
CallTickAtSqrt ==
    /\ pc = "sqrt_done"
    /\ sqrt_res.kind = "Ok"
    /\ \E p \in PricesAt(sqrt_res.val) : Enter(p)
    /\ UNCHANGED <<tick, sqrt_res>>

CallTick ==
    /\ pc = "idle"
    /\ \E p \in OtherPrices : Enter(p)
    /\ UNCHANGED <<tick, sqrt_res>>

\* one iteration of the loop
LoopIter ==
    /\ pc = "loop"
    /\ \E it \in {Iteration(r, log_2, i)} :
          /\ r' = it.r
          /\ log_2' = it.log_2
          /\ arith' = arith \o it.arith
    /\ positions' = Append(positions, i)
    /\ IF i = LoopLast THEN pc' = "final" /\ i' = 0
                       ELSE pc' = "loop" /\ i' = i - 1
    /\ UNCHANGED <<tick, sqrt_res, price, tick_low, tick_high, tick_res>>

\* the squaring after the loop, the two candidates and the result
Finish ==
    /\ pc = "final"
    /\ \E oc \in BOOLEAN : \E f \in {Final(r, log_2, price, oc)} :
          /\ r' = f.r
          /\ log_2' = f.log_2
          /\ arith' = arith \o f.arith
          /\ tick_low' = f.tick_low
          /\ tick_high' = f.tick_high
          /\ tick_res' = f.res
    /\ positions' = Append(positions, FinalBit)
    /\ pc' = "tick_done"
    /\ UNCHANGED <<tick, sqrt_res, price, i>>

\* the call has returned and its values are dropped
Return ==
    /\ pc \in {"sqrt_done", "tick_done"}
    /\ pc' = "idle"
    /\ tick' = 0
    /\ sqrt_res' = NoSqrt
    /\ price' = << >>
    /\ r' = << >>
    /\ log_2' = << >>
    /\ i' = 0
    /\ positions' = << >>
    /\ arith' = << >>
    /\ tick_low' = 0
    /\ tick_high' = 0
    /\ tick_res' = NoResult

Next == \/ CallSqrt
        \/ CallTickAtSqrt
        \/ CallTick
        \/ LoopIter
        \/ Finish
        \/ Return

Spec == Init /\ [][Next]_vars

(***************************************************************************)
(* Properties                                                              *)
(***************************************************************************)
InTickRange(t) == MIN_TICK <= t /\ t <= MAX_TICK
SqrtReturned == pc = "sqrt_done"
TickReturned == pc = "tick_done"

\* The two bounds as the decimal numbers the documentation gives.
MinPrice == from_str("4295128739")
MaxPrice == from_str("1461446703485210103287273052203988822378723970342")

\* C1: every tick outside [MIN_TICK, MAX_TICK], the extreme i32 values
\* included, makes get_sqrt_ratio_at_tick return the error T and no price,
\* before any arithmetic is done.
C1_TickOutOfRange ==
    SqrtReturned /\ ~InTickRange(tick)
        => sqrt_res = Err("T", << >>)

\* C2: every price below MIN_SQRT_RATIO or at or above MAX_SQRT_RATIO makes
\* get_tick_at_sqrt_ratio return the error R and no tick, and it gets no
\* further than the entry check; MIN_SQRT_RATIO itself is accepted.
C2_PriceOutOfRange ==
    /\ TickReturned /\ (LtN(price, MinPrice) \/ GeN(price, MaxPrice))
           => tick_res = TickErr("R") /\ positions = << >>
    /\ pc \in {"loop", "final"} => GeN(price, MinPrice) /\ LtN(price, MaxPrice)
    /\ TickReturned /\ price = MinPrice => tick_res.kind = "Ok"

C2_Witness ==
    TickReturned /\ price = MaxPrice /\ tick_res = TickErr("R")

\* The valid ticks the caller passes, each with the price
\* get_sqrt_ratio_at_tick returns for it.
ValidTicks == {t \in Ticks : InTickRange(t)}
PriceOf == [t \in ValidTicks |-> get_sqrt_ratio_at_tick(t, TRUE).val]

\* C3: get_sqrt_ratio_at_tick is strictly increasing on [MIN_TICK, MAX_TICK]:
\* the price returned for a valid tick is below the price of every greater
\* valid tick and above the price of every smaller one.
C3_StrictlyIncreasing ==
    SqrtReturned /\ InTickRange(tick)
        => /\ sqrt_res.kind = "Ok"
           /\ \A t2 \in ValidTicks :
                  /\ tick < t2 => LtN(sqrt_res.val, PriceOf[t2])
                  /\ t2 < tick => LtN(PriceOf[t2], sqrt_res.val)

\* the step across tick 0, where the reciprocal branch starts
C3_Witness ==
    /\ SqrtReturned /\ tick = 1 /\ sqrt_res.kind = "Ok"
    /\ LtN(PriceOf[0], sqrt_res.val) /\ LtN(PriceOf[-1], PriceOf[0])

\* C4: for every tick in [MIN_TICK, MAX_TICK] get_sqrt_ratio_at_tick returns
\* a price, never an error, in [MIN_SQRT_RATIO, MAX_SQRT_RATIO], and the two
\* bounds are the prices of MIN_TICK and MAX_TICK.
C4_OutputInRange ==
    SqrtReturned /\ InTickRange(tick)
        => /\ sqrt_res.kind = "Ok"
           /\ GeN(sqrt_res.val, MIN_SQRT_RATIO)
           /\ LeN(sqrt_res.val, MAX_SQRT_RATIO)
           /\ tick = MIN_TICK => sqrt_res.val = MIN_SQRT_RATIO
           /\ tick = MAX_TICK => sqrt_res.val = MAX_SQRT_RATIO

C4_Witness ==
    SqrtReturned /\ tick = MAX_TICK /\ sqrt_res.val = MAX_SQRT_RATIO

\* C5: for every price in [MIN_SQRT_RATIO, MAX_SQRT_RATIO)
\* get_tick_at_sqrt_ratio returns a tick, never an error, inside
\* [MIN_TICK, MAX_TICK]: the nested get_sqrt_ratio_at_tick(tick_high) does
\* not fail.
C5_TickInRange ==
    TickReturned /\ GeN(price, MIN_SQRT_RATIO) /\ LtN(price, MAX_SQRT_RATIO)
        => tick_res.kind = "Ok" /\ InTickRange(tick_res.val)

\* the nested call made at the very last valid tick
C5_Witness ==
    /\ TickReturned /\ price = SubN(MAX_SQRT_RATIO, <<1>>)
    /\ tick_low = MAX_TICK - 1 /\ tick_high = MAX_TICK
    /\ tick_res = TickOk(MAX_TICK - 1)

\* C6: round trip: for every tick t with MIN_TICK <= t < MAX_TICK,
\* get_tick_at_sqrt_ratio(get_sqrt_ratio_at_tick(t)) = t.
C6_RoundTrip ==
    /\ TickReturned /\ sqrt_res.kind = "Ok" /\ price = sqrt_res.val
       /\ MIN_TICK <= tick /\ tick < MAX_TICK
           => tick_res = TickOk(tick)
    /\ TickReturned /\ price = from_str("4295128739") => tick_res = TickOk(MIN_TICK)
    /\ TickReturned /\ price = from_str("4295343490") => tick_res = TickOk(MIN_TICK + 1)

C6_Witness ==
    /\ TickReturned /\ tick = MIN_TICK + 1 /\ price = from_str("4295343490")
    /\ price = sqrt_res.val /\ tick_res = TickOk(MIN_TICK + 1)

\* The reference algorithm in unbounded arithmetic.  K[0] is the constant
\* the ratio starts from when bit 0 is set, K[n] the factor for bit n.
TWO128 == ShlN(<<1>>, 128)
TWO127 == ShlN(<<1>>, 127)
K(n) == IF n = 0 THEN Ratio0(1) ELSE RatioFactors[n][2]

\* for the bits from n to last that are set: ratio = (ratio * K[n]) >> 128
RECURSIVE RefChain(_, _, _, _)
RefRest(abs, n, last, nxt) ==
    IF Evaluated(nxt) THEN RefChain(abs, n + 1, last, nxt) ELSE nxt

RefChain(abs, n, last, ratio) ==
    IF n > last THEN ratio
    ELSE IF (abs \div 2^n) % 2 = 1
    THEN RefRest(abs, n, last, ShrN(MulN(ratio, K(n)), 128))
    ELSE RefChain(abs, n + 1, last, ratio)

RefStart(abs) == IF abs % 2 = 1 THEN K(0) ELSE TWO128
RefSigned(t, ratio) == IF t > 0 THEN DivN(U256_MAX, ratio) ELSE ratio
\* (ratio >> 32) rounded up
RefRounded(ratio) == ShrN(AddN(ratio, SubN(ShlN(<<1>>, 32), <<1>>)), 32)

Reference(t, last) ==
    RefRounded(RefSigned(t, RefChain(IF t < 0 THEN -t ELSE t, 1, last,
                                     RefStart(IF t < 0 THEN -t ELSE t))))

\* The literal values stated for single ticks.
Vectors == {
    <<MIN_TICK,     from_str("4295128739")>>,
    <<MIN_TICK + 1, from_str("4295343490")>>,
    <<50,           from_str("79426470787362580746886972461")>>,
    <<500000,       from_str("5697689776495288729098254600827762987878")>>,
    <<738203,       from_str("847134979253254120489401328389043031315994541")>>,
    <<MAX_TICK,     from_str("1461446703485210103287273052203988822378723970342")>> }

MatchesVectors == \A v \in Vectors : tick = v[1] => sqrt_res.val = v[2]

\* C7 as stated: for every valid tick get_sqrt_ratio_at_tick returns the
\* value of the reference algorithm that uses the bits 1..18 of |tick|, and
\* the literal values as well.
C7_ReferenceBits18 ==
    SqrtReturned /\ InTickRange(tick)
        => /\ sqrt_res.kind = "Ok"
           /\ sqrt_res.val = Reference(tick, 18)
           /\ MatchesVectors

\* C7 amended: for every valid tick get_sqrt_ratio_at_tick returns bit for
\* bit the value of the reference algorithm that uses the bits 1..19 of
\* |tick| (twenty constants K[0..19]), and the literal values hold.
C7_ReferenceBits19 ==
    SqrtReturned /\ InTickRange(tick)
        => /\ sqrt_res.kind = "Ok"
           /\ sqrt_res.val = Reference(tick, 19)
           /\ MatchesVectors

\* a tick with bit 19 set, where the two references part
C7_Witness ==
    /\ SqrtReturned /\ tick = 738203
    /\ sqrt_res.val = Reference(tick, 19)
    /\ sqrt_res.val # Reference(tick, 18)
    /\ sqrt_res.val = from_str("847134979253254120489401328389043031315994541")

\* The bit positions from a down to b, in that order.
Down(a, b) == [k \in 1..(a - b + 1) |-> a + 1 - k]

\* C8 as stated: the loop makes 14 iterations, for the bit positions 63 down
\* to 50, and one more squaring for bit 50 follows it.
C8_FourteenIterations ==
    /\ pc = "final" => positions = Down(63, 50)
    /\ TickReturned /\ tick_res.kind = "Ok" => positions = Down(63, 50) \o <<50>>

\* C8 amended: the loop makes 13 iterations, for the bit positions 63 down
\* to 51, and one final squaring for bit 50 follows it, 14 squarings in all;
\* each decides its own bit of log_2 and leaves the bits below it clear.
C8_ThirteenIterations ==
    /\ pc = "loop" => positions = Down(63, i + 1) /\ i >= 51
    /\ pc = "final" => positions = Down(63, 51)
    /\ TickReturned /\ tick_res.kind = "Ok" => positions = Down(63, 50)
    /\ pc \in {"loop", "final"} \/ (TickReturned /\ tick_res.kind = "Ok")
           => ModPow2(log_2, 64 - Len(positions)) = << >>

\* a call in which the last iteration of the loop and the final squaring
\* both set their bit
C8_Witness ==
    /\ TickReturned /\ tick_res.kind = "Ok" /\ positions = Down(63, 50)
    /\ ModPow2(ShrN(log_2, 50), 2) = <<3>>

\* C9: the tick t returned for a price p in [MIN_SQRT_RATIO, MAX_SQRT_RATIO)
\* is the greatest valid tick whose price does not exceed p:
\* get_sqrt_ratio_at_tick(t) <= p < get_sqrt_ratio_at_tick(t + 1); the two
\* candidates satisfy tick_low <= tick_high <= tick_low + 1 and t is one of
\* them.
C9_GreatestTick ==
    TickReturned /\ tick_res.kind = "Ok"
        => /\ tick_low <= tick_high /\ tick_high <= tick_low + 1
           /\ tick_res.val \in {tick_low, tick_high}
           /\ InTickRange(tick_res.val) /\ tick_res.val < MAX_TICK
           /\ LeN(get_sqrt_ratio_at_tick(tick_res.val, TRUE).val, price)
           /\ LtN(price, get_sqrt_ratio_at_tick(tick_res.val + 1, TRUE).val)

\* one below the price of tick 0: the high candidate is refused
C9_Witness ==
    /\ TickReturned /\ price = SubN(ShlN(<<1>>, 96), <<1>>)
    /\ tick_low = -1 /\ tick_high = 0 /\ tick_res = TickOk(-1)

\* An I256 as sign and magnitude, and what fits 256 signed bits.
SignMag(x) == [neg |-> IsNeg(x), mag |-> Magnitude(x)]
Negated(a) == [neg |-> ~a.neg, mag |-> a.mag]
ExactSum(a, b) ==
    IF a.neg = b.neg THEN [neg |-> a.neg, mag |-> AddN(a.mag, b.mag)]
    ELSE IF GeN(a.mag, b.mag) THEN [neg |-> a.neg, mag |-> SubN(a.mag, b.mag)]
    ELSE [neg |-> b.neg, mag |-> SubN(b.mag, a.mag)]
ExactProduct(a, b) == [neg |-> a.neg # b.neg, mag |-> MulN(a.mag, b.mag)]
FitsI256(a) == LtN(a.mag, TWO255) \/ (a.neg /\ a.mag = TWO255)
FitsU256(a) == LtN(a, TWO256)

\* The operation e, done in unbounded arithmetic, stays inside 256 bits, and
\* its operands are in the range the step relies on.
Exact(e) ==
    CASE e.op = "mul" ->
             /\ ~IsZero(e.lhs) /\ LeN(e.lhs, TWO128)
             /\ FitsU256(MulN(e.lhs, e.rhs))
      [] e.op = "div" -> ~IsZero(e.rhs) /\ LeN(e.rhs, TWO128)
      [] e.op = "add" -> FitsU256(AddN(e.lhs, e.rhs))
      [] e.op = "shl" -> FitsU256(ShlN(e.lhs, ToInt(e.rhs)))
      [] e.op = "shr" -> TRUE
      [] e.op = "overflowing_mul" ->
             /\ GeN(e.lhs, TWO127) /\ LtN(e.lhs, TWO128)
             /\ FitsU256(MulN(e.lhs, e.rhs))
             /\ LeN(ShrN(MulN(e.lhs, e.rhs), 255), <<1>>)
      [] e.op = "smul" -> FitsI256(ExactProduct(SignMag(e.lhs), SignMag(e.rhs)))
      [] e.op = "ssub" -> FitsI256(ExactSum(SignMag(e.lhs), Negated(SignMag(e.rhs))))
      [] e.op = "sadd" -> FitsI256(ExactSum(SignMag(e.lhs), SignMag(e.rhs)))
      [] e.op = "sshl" ->
             FitsI256([neg |-> IsNeg(e.lhs),
                       mag |-> ShlN(Magnitude(e.lhs), ToInt(e.rhs))])

AllExact(ops) == \A k \in 1..Len(ops) : Exact(ops[k])

\* C10: for every valid input no arithmetic step of either conversion
\* exceeds its 256 bits or divides by zero, so that wrapping and exact
\* arithmetic agree: ratio is in (0, 2^128] at each multiplication and at the
\* division, r is in [2^127, 2^128) before each squaring and f is 0 or 1,
\* and log_2 * SQRT_10001 fits a signed 256-bit value.
C10_NoOverflow ==
    /\ SqrtReturned /\ InTickRange(tick)
           => sqrt_res.kind = "Ok" /\ AllExact(sqrt_res.arith)
    /\ TickReturned /\ GeN(price, MIN_SQRT_RATIO) /\ LtN(price, MAX_SQRT_RATIO)
           => tick_res.kind = "Ok" /\ AllExact(arith)

\* a call that did every kind of step: the division of a positive tick in
\* the nested call, after the multiplications of the greatest tick
C10_Witness ==
    /\ TickReturned /\ tick_res.kind = "Ok" /\ tick_high = MAX_TICK
    /\ \E k \in 1..Len(arith) : arith[k].op = "div"
    /\ Len(sqrt_res.arith) >= 8
    /\ AllExact(arith) /\ AllExact(sqrt_res.arith)

=============================================================================
